---- MODULE Spec2Model ----
(***************************************************************************)
(* A model of deta_discord_interactions/discord.py: the WSGI entry point   *)
(* DiscordInteractions.__call__, signature verification, the dispatch on   *)
(* the interaction type, the two registries and their blueprints, the      *)
(* token cache and update_commands.                                        *)
(*                                                                         *)
(* Bytes.  A request body is a sequence of atoms.  The structural          *)
(* characters of JSON ("{", "}", ":", ","), the JSON whitespace " " and    *)
(* the digits are one atom each; a quoted string literal ("type", "data",  *)
(* "name", "custom_id" and the literals used as values) is one atom, and   *)
(* so is the JSON literal true.  The atoms "b" and "'" are the characters  *)
(* Python's repr of a bytes object adds around its content.                *)
(***************************************************************************)
EXTENDS Integers, Sequences, FiniteSets, TLC

WS == " "
Digits == {"1", "2", "3", "4", "5", "6"}
StringAtoms == {"type", "data", "name", "custom_id", "a", "b1", "a|x"}
Structural == {"{", "}", ":", ","}
Literals == {"true"}
JsonAtoms == Structural \cup {WS} \cup Digits \cup StringAtoms \cup Literals
Atoms == JsonAtoms \cup {"b", "'"}

(***************************************************************************)
(* json.loads on a sequence of atoms: a recursive-descent parser over the  *)
(* subset  value ::= number | string | true | object.  A value is a record *)
(* with field k; an object keeps its members as a sequence of <<key,       *)
(* value>> pairs in the order of first insertion, a repeated key replacing *)
(* the value in place, as a Python dict does.                              *)
(***************************************************************************)
SkipWs(s, i) ==
    LET RECURSIVE skip(_)
        skip(j) == IF j <= Len(s) /\ s[j] = WS THEN skip(j + 1) ELSE j
    IN skip(i)

DigitsEnd(s, i) ==
    LET RECURSIVE run(_)
        run(j) == IF j <= Len(s) /\ s[j] \in Digits THEN run(j + 1) ELSE j
    IN run(i)

JNum(ds) == [k |-> "num", v |-> ds]
JStr(a) == [k |-> "str", v |-> a]
JObj(ms) == [k |-> "obj", v |-> ms]
\* Python's True: a bool is an int, and True == 1
JTrue == [k |-> "bool", v |-> <<"1">>]
ParseFail == [ok |-> FALSE, v |-> JNum(<<>>), next |-> 0]
ParseOk(v, n) == [ok |-> TRUE, v |-> v, next |-> n]

HasKey(ms, key) == \E i \in 1..Len(ms) : ms[i][1] = key
KeyIndex(ms, key) == CHOOSE i \in 1..Len(ms) : ms[i][1] = key
DictPut(ms, key, val) ==
    IF HasKey(ms, key)
    THEN [ms EXCEPT ![KeyIndex(ms, key)] = <<key, val>>]
    ELSE Append(ms, <<key, val>>)

RECURSIVE ParseValue(_, _)
RECURSIVE ParseMembers(_, _, _)
\* s[i] is the first atom of a member (a key), ms the members parsed so far
ParseMembers(s, i, ms) ==
    IF i > Len(s) \/ s[i] \notin StringAtoms THEN ParseFail
    ELSE LET c == SkipWs(s, i + 1) IN
         IF c > Len(s) \/ s[c] # ":" THEN ParseFail
         ELSE LET r == ParseValue(s, SkipWs(s, c + 1)) IN
              IF ~r.ok THEN ParseFail
              ELSE LET e == SkipWs(s, r.next)
                       ms2 == DictPut(ms, s[i], r.v) IN
                   IF e > Len(s) THEN ParseFail
                   ELSE IF s[e] = "}" THEN ParseOk(JObj(ms2), e + 1)
                   ELSE IF s[e] = "," THEN ParseMembers(s, SkipWs(s, e + 1), ms2)
                   ELSE ParseFail

ParseValue(s, i) ==
    IF i > Len(s) THEN ParseFail
    ELSE IF s[i] \in Digits
         THEN LET e == DigitsEnd(s, i) IN ParseOk(JNum(SubSeq(s, i, e - 1)), e)
    ELSE IF s[i] \in StringAtoms THEN ParseOk(JStr(s[i]), i + 1)
    ELSE IF s[i] = "true" THEN ParseOk(JTrue, i + 1)
    ELSE IF s[i] = "{"
         THEN LET m == SkipWs(s, i + 1) IN
              IF m <= Len(s) /\ s[m] = "}" THEN ParseOk(JObj(<<>>), m + 1)
              ELSE ParseMembers(s, m, <<>>)
    ELSE ParseFail

\* json.loads(text): [ok |-> FALSE] stands for json.JSONDecodeError
json_loads(s) ==
    LET r == ParseValue(s, SkipWs(s, 1)) IN
    IF r.ok /\ SkipWs(s, r.next) = Len(s) + 1 THEN [ok |-> TRUE, v |-> r.v]
    ELSE [ok |-> FALSE, v |-> JNum(<<>>)]

\* json.dumps(value, separators=(',', ':'))
RECURSIVE json_dumps(_)
RECURSIVE DumpMembers(_, _)
DumpMembers(ms, i) ==
    IF i > Len(ms) THEN <<>>
    ELSE (IF i > 1 THEN <<",">> ELSE <<>>) \o <<ms[i][1], ":">> \o json_dumps(ms[i][2])
         \o DumpMembers(ms, i + 1)
json_dumps(v) ==
    IF v.k = "num" THEN v.v
    ELSE IF v.k = "str" THEN <<v.v>>
    ELSE IF v.k = "bool" THEN <<"true">>
    ELSE <<"{">> \o DumpMembers(v.v, 1) \o <<"}">>

\* bytes.decode("UTF-8"): fails on a byte sequence that is not valid UTF-8
BadByte == "xFF"
Utf8Ok(raw) == \A i \in 1..Len(raw) : raw[i] # BadByte

\* f"{body}" of a bytes object: Python's repr, b'...', not the content
BytesRepr(body) == <<"b", "'">> \o body \o <<"'">>

(***************************************************************************)
(* Signatures.  A signature header is a string: either not hexadecimal, or *)
(* the hex of 64 bytes.  The bytes are written symbolically: the Ed25519   *)
(* signature, under the configured key, of the message `of`, with the byte *)
(* at index `flip` changed when flip > 0.                                  *)
(***************************************************************************)
NotHex == [hex |-> FALSE, of |-> <<>>, flip |-> 0]
SignatureOf(message, flip) == [hex |-> TRUE, of |-> message, flip |-> flip]
\* nacl VerifyKey.verify(message, signature): FALSE stands for BadSignatureError
Ed25519Verify(message, sig) == sig.flip = 0 /\ sig.of = message

SIG == "HTTP_X_SIGNATURE_ED25519"
TS == "HTTP_X_SIGNATURE_TIMESTAMP"
INPUT == "wsgi.input"

\* class InteractionType
PING == <<"1">>
APPLICATION_COMMAND == <<"2">>
MESSAGE_COMPONENT == <<"3">>
APPLICATION_COMMAND_AUTOCOMPLETE == <<"4">>
MODAL_SUBMIT == <<"5">>

\* os.getenv(name, False): the string when the variable is set, else False
PyFalse == [py |-> "bool", v |-> ""]
PyStr(x) == [py |-> "str", v |-> x]
getenv(env, name) == IF name \in DOMAIN env THEN PyStr(env[name]) ELSE PyFalse
\* the truth value Python gives the object in `if x:`
Truthy(x) == x.py = "str" /\ x.v # ""

\* exceptions in flight
NoExc == [type |-> "none", arg |-> <<>>]
Exc(t, a) == [type |-> t, arg |-> a]
\* DiscordInteractions.abort(code, reason): http_code is f"{code} {reason}",
\* written as the pair of its two parts
abort(code, reason) == Exc("AbortError", <<code, reason>>)

\* dict lookups on a parsed JSON value -------------------------------------
IsDict(j) == j.k = "obj"
DictHas(j, key) == HasKey(j.v, key)
DictGet(j, key) == j.v[KeyIndex(j.v, key)][2]

\* data["data"][field], as run_command and run_autocomplete evaluate it
DataField(json, field) ==
    IF ~DictHas(json, "data") THEN [ok |-> FALSE, exc |-> Exc("KeyError", <<"data">>), v |-> JNum(<<>>)]
    ELSE LET d == DictGet(json, "data") IN
         IF ~IsDict(d) THEN [ok |-> FALSE, exc |-> Exc("TypeError", <<"data">>), v |-> JNum(<<>>)]
         ELSE IF ~DictHas(d, field) THEN [ok |-> FALSE, exc |-> Exc("KeyError", <<field>>), v |-> JNum(<<>>)]
         ELSE [ok |-> TRUE, exc |-> NoExc, v |-> DictGet(d, field)]

\* registries ---------------------------------------------------------------
Names == {"a", "b1"}
CustomIds == {"a", "b"}
Handlers == {"h1", "h2"}
\* the Command object add_command builds around the callable
NoId == <<>>
Command(h) == [kind |-> "Command", command |-> h, id |-> NoId]

\* what a user callable does when invoked: a return value or an exception
Ret(kind, h) == [raised |-> FALSE, kind |-> kind, content |-> h]
Raises(h) == [raised |-> TRUE, kind |-> "Exception", content |-> h]
\* Message.from_return_value
from_return_value(r) == [r EXCEPT !.kind = "Message"]
\* PongResponse.encode(): the response text and the mimetype
PongBody == <<"type", "PONG">>
PongResponse_encode == <<PongBody, "application/json">>
\* encode() of a Message, a Modal or an AutocompleteResult
Message_encode(result) == <<<<"type", result.kind, result.content>>, "application/json">>
\* result.encode()
encode(result) ==
    IF result.kind = "Pong" THEN PongResponse_encode ELSE Message_encode(result)

VARIABLES
    os_environ,                \* the process environment read by __init__
    DONT_VALIDATE_SIGNATURE,   \* self.DONT_VALIDATE_SIGNATURE
    DONT_REGISTER_WITH_DISCORD,\* self.DONT_REGISTER_WITH_DISCORD
    discord_token,             \* self.discord_token: None or the cached token dict
    now,                       \* time.time(), in seconds
    last_call,                 \* the last administrative call and what it did
    thread_pc,                 \* position of each thread inside auth_headers
    thread_token,              \* each thread's local discord_token in fetch_token
    calls,                     \* auth_headers calls each thread has started
    token_requests,            \* every POST /oauth2/token issued, in order
    blueprint_commands,        \* discord_commands of each blueprint
    blueprint_handlers,        \* custom_id_handlers of each blueprint
    last_registration,         \* whether the last registration call found its key present
    discord_commands,          \* self.discord_commands: name -> Command
    custom_id_handlers,        \* self.custom_id_handlers: custom id -> callable
    pc,                        \* position of the request in __call__
    environ,                   \* the WSGI environ of the request being handled
    data,                      \* the dict __call__ builds: json and raw_data
    allow_modal,               \* the keyword argument handle_request passes to run_handler
    result,                    \* the value handle_request returned
    exc,                       \* the exception in flight
    started,                   \* the calls of start_response: <<status, headers>>
    returned,                  \* the body __call__ returned
    trace,                     \* the steps taken for this request, in order
    warned                     \* warnings.warn was called

vars == <<os_environ, DONT_VALIDATE_SIGNATURE, DONT_REGISTER_WITH_DISCORD, discord_token, now,
          last_call, thread_pc, thread_token, calls, token_requests, blueprint_commands,
          blueprint_handlers, last_registration, discord_commands, custom_id_handlers,
          pc, environ, data, allow_modal, result, exc, started, returned, trace, warned>>
config == <<os_environ, DONT_VALIDATE_SIGNATURE, DONT_REGISTER_WITH_DISCORD>>
token == <<discord_token, now, last_call>>
threads == <<thread_pc, thread_token, calls, token_requests>>
blueprints == <<blueprint_commands, blueprint_handlers>>
registries == <<discord_commands, custom_id_handlers, last_registration>>
request == <<environ, data, allow_modal, result, exc, started, returned, trace, warned>>

NoData == [json |-> JNum(<<>>), raw_data |-> <<>>]
NoResult == [raised |-> FALSE, kind |-> "none", content |-> ""]
NoBody == <<>>
EmptyDict == [k \in {} |-> ""]

\* the per-request variables before a request arrives
RequestReset(e) ==
    /\ environ' = e
    /\ data' = NoData
    /\ allow_modal' = TRUE
    /\ result' = NoResult
    /\ exc' = NoExc
    /\ started' = <<>>
    /\ returned' = NoBody
    /\ trace' = <<>>
    /\ warned' = FALSE

\* no request is being handled
Between == pc = "idle"

\* self.discord_token = None
NoToken == [access_token |-> <<>>, expires_in |-> 0, expires_on |-> 0, at |-> 0]
\* no administrative call has been made yet
NoCall == [op |-> "none", at |-> 0, before |-> NoToken, exc |-> NoExc, header |-> <<>>,
           ret |-> NoToken, fetches |-> 0, outbound |-> <<>>]
Threads == {"t1", "t2"}
Blueprints == {"A", "B"}

\* DiscordInteractions.__init__
EnvValues == {"", "0", "1"}
Environments ==
    {EmptyDict} \cup {[k \in {"DONT_VALIDATE_SIGNATURE"} |-> v] : v \in EnvValues}
InitConfig ==
    /\ os_environ \in Environments
    /\ DONT_VALIDATE_SIGNATURE = getenv(os_environ, "DONT_VALIDATE_SIGNATURE")
    /\ DONT_REGISTER_WITH_DISCORD = getenv(os_environ, "DONT_REGISTER_WITH_DISCORD")
InitToken ==
    /\ discord_token = NoToken
    /\ now = 0
    /\ last_call = NoCall
InitThreads ==
    /\ thread_pc = [t \in Threads |-> "idle"]
    /\ thread_token = [t \in Threads |-> NoToken]
    /\ calls = [t \in Threads |-> 0]
    /\ token_requests = <<>>
\* DiscordInteractionsBlueprint.__init__
InitBlueprints ==
    /\ last_registration = "none"
    /\ blueprint_commands = [b \in Blueprints |-> EmptyDict]
    /\ blueprint_handlers = [b \in Blueprints |-> EmptyDict]
InitRequest ==
    /\ pc = "idle"
    /\ environ = EmptyDict
    /\ data = NoData
    /\ allow_modal = TRUE
    /\ result = NoResult
    /\ exc = NoExc
    /\ started = <<>>
    /\ returned = NoBody
    /\ trace = <<>>
    /\ warned = FALSE
Init ==
    /\ InitConfig
    /\ InitToken
    /\ InitThreads
    /\ InitBlueprints
    /\ discord_commands = EmptyDict
    /\ custom_id_handlers = EmptyDict
    /\ InitRequest

\* mutant: a key already present keeps its entry
dict_setitem_KeepFirst(d, key, val) ==
    [n \in DOMAIN d \cup {key} |-> IF n \in DOMAIN d THEN d[n] ELSE val]
\* d[key] = val on a Python dict
dict_setitem(d, key, val) ==
    [n \in DOMAIN d \cup {key} |-> IF n = key THEN val ELSE d[n]]
\* mutant: on a collision the receiver's entry stays
dict_update_ReceiverWins(d, other) ==
    [n \in DOMAIN d \cup DOMAIN other |-> IF n \in DOMAIN d THEN d[n] ELSE other[n]]
\* d.update(other) on a Python dict
dict_update(d, other) ==
    [n \in DOMAIN d \cup DOMAIN other |-> IF n \in DOMAIN other THEN other[n] ELSE d[n]]

\* the registration call found d[key]: it replaces an entry, or adds one
Noted(d, key) == last_registration' = IF key \in DOMAIN d THEN "replaced" ELSE "added"

\* add_command(command, name)
add_command(name, h) ==
    /\ Between
    /\ Noted(discord_commands, name)
    /\ discord_commands' = dict_setitem(discord_commands, name, Command(h))
    /\ UNCHANGED <<config, token, threads, blueprints, custom_id_handlers, pc, request>>

\* add_custom_handler(handler, custom_id)
add_custom_handler(id, h) ==
    /\ Between
    /\ custom_id_handlers' = dict_setitem(custom_id_handlers, id, h)
    /\ Noted(custom_id_handlers, id)
    /\ UNCHANGED <<config, token, threads, blueprints, discord_commands, pc, request>>

\* the SlashCommandGroup object command_group builds
SlashCommandGroup == [kind |-> "SlashCommandGroup", command |-> "", id |-> NoId]
\* command_group(name, description)
command_group(name) ==
    /\ Between
    /\ discord_commands' = dict_setitem(discord_commands, name, SlashCommandGroup)
    /\ Noted(discord_commands, name)
    /\ UNCHANGED <<config, token, threads, blueprints, custom_id_handlers, pc, request>>

\* the same methods called on a blueprint
blueprint_add_command(b, name, h) ==
    /\ Between
    /\ blueprint_commands' =
         [blueprint_commands EXCEPT ![b] = dict_setitem(@, name, Command(h))]
    /\ Noted(blueprint_commands[b], name)
    /\ UNCHANGED <<config, token, threads, blueprint_handlers, discord_commands,
                   custom_id_handlers, pc, request>>
blueprint_add_custom_handler(b, id, h) ==
    /\ Between
    /\ blueprint_handlers' = [blueprint_handlers EXCEPT ![b] = dict_setitem(@, id, h)]
    /\ Noted(blueprint_handlers[b], id)
    /\ UNCHANGED <<config, token, threads, blueprint_commands, discord_commands,
                   custom_id_handlers, pc, request>>

\* mutant: the entries are moved out of the blueprint
register_blueprint_Draining(b) ==
    /\ Between
    /\ discord_commands' = dict_update(discord_commands, blueprint_commands[b])
    /\ custom_id_handlers' = dict_update(custom_id_handlers, blueprint_handlers[b])
    /\ last_registration' = "merged"
    /\ blueprint_commands' = [blueprint_commands EXCEPT ![b] = EmptyDict]
    /\ blueprint_handlers' = [blueprint_handlers EXCEPT ![b] = EmptyDict]
    /\ UNCHANGED <<config, token, threads, pc, request>>
\* register_blueprint(blueprint)
register_blueprint(b) ==
    /\ Between
    /\ discord_commands' = dict_update(discord_commands, blueprint_commands[b])
    /\ custom_id_handlers' = dict_update(custom_id_handlers, blueprint_handlers[b])
    /\ last_registration' = "merged"
    /\ UNCHANGED <<config, token, threads, blueprints, pc, request>>

\* the server calls __call__(environ, start_response)
Receive(e) ==
    /\ Between
    /\ pc' = "call"
    /\ RequestReset(e)
    /\ UNCHANGED <<config, token, threads, blueprints, registries>>

\* every entry of trace is a tuple: <<step>> or <<step, detail, ...>>
Steps(names) == [i \in 1..Len(names) |-> <<names[i]>>]
Log(ev) == trace' = Append(trace, ev)

\* mutant: a body that cannot be read or parsed is handed on as an empty dict
ReadBody_Unchecked ==
    /\ pc = "call"
    /\ Log(<<"read_body">>)
    /\ data' = [json |-> IF INPUT \in DOMAIN environ /\ Utf8Ok(environ[INPUT])
                             /\ json_loads(environ[INPUT]).ok
                          THEN json_loads(environ[INPUT]).v ELSE JObj(<<>>),
                raw_data |-> IF INPUT \in DOMAIN environ THEN environ[INPUT] ELSE <<>>]
    /\ exc' = NoExc
    /\ pc' = "handle"
    /\ UNCHANGED <<config, token, threads, blueprints, registries, environ, allow_modal, result, started, returned, warned>>
\* __call__, the inner try: read and parse the body
ReadBody ==
    /\ pc = "call"
    /\ Log(<<"read_body">>)
    /\ IF INPUT \in DOMAIN environ /\ Utf8Ok(environ[INPUT]) /\ json_loads(environ[INPUT]).ok
       THEN /\ data' = [json |-> json_loads(environ[INPUT]).v, raw_data |-> environ[INPUT]]
            /\ exc' = NoExc
            /\ pc' = "handle"
       ELSE /\ data' = data
            /\ exc' = abort("400", "Malformed or missing JSON body")
            /\ pc' = "except"
    /\ UNCHANGED <<config, token, threads, blueprints, registries, environ, allow_modal, result, started, returned, warned>>

(***************************************************************************)
(* verify_signature(request) as a function of the request and the flag:    *)
(* the exception it raises (NoExc when it returns), whether it warned, and *)
(* the steps it took.                                                      *)
(***************************************************************************)
VerifyDone(e, w, steps) == [exc |-> e, warn |-> w, steps |-> steps]
\* mutant: the second verification's failure is not turned into a rejection
VerifyFallback_Accepting(env, d) ==
    IF json_loads(d.raw_data).ok
    THEN VerifyDone(NoExc, TRUE, <<"raw_data", "VerifyKey", "verify", "raw_data", "verify">>)
    ELSE VerifyDone(Exc("JSONDecodeError", <<>>), FALSE,
                    <<"raw_data", "VerifyKey", "verify", "raw_data">>)
VerifyFallback(env, d) ==
    LET loaded == json_loads(d.raw_data) IN
    IF ~loaded.ok
    THEN VerifyDone(Exc("JSONDecodeError", <<>>), FALSE,
                    <<"raw_data", "VerifyKey", "verify", "raw_data">>)
    ELSE LET body == json_dumps(loaded.v)
             message == env[TS] \o BytesRepr(body) IN
         IF Ed25519Verify(message, env[SIG])
         THEN VerifyDone(NoExc, TRUE, <<"raw_data", "VerifyKey", "verify", "raw_data", "verify">>)
         ELSE VerifyDone(abort("401", "Incorrect Signature"), FALSE,
                         <<"raw_data", "VerifyKey", "verify", "raw_data", "verify">>)
\* mutant: the headers are checked before the flag is looked at
verify_signature_HeadersFirst(env, d, flag) ==
    IF SIG \notin DOMAIN env \/ TS \notin DOMAIN env
    THEN VerifyDone(abort("401", "Missing signature or timestamp"), FALSE, <<>>)
    ELSE VerifyDone(NoExc, FALSE, <<>>)
\* mutant: the key is built before the headers are checked
verify_signature_KeyFirst(env, d, flag) ==
    IF Truthy(flag) THEN VerifyDone(NoExc, FALSE, <<>>)
    ELSE IF SIG \notin DOMAIN env \/ TS \notin DOMAIN env
    THEN VerifyDone(abort("401", "Missing signature or timestamp"), FALSE, <<"VerifyKey">>)
    ELSE IF ~env[SIG].hex
    THEN VerifyDone(Exc("ValueError", <<"fromhex">>), FALSE, <<"raw_data", "VerifyKey">>)
    ELSE IF Ed25519Verify(env[TS] \o d.raw_data, env[SIG])
    THEN VerifyDone(NoExc, FALSE, <<"raw_data", "VerifyKey", "verify">>)
    ELSE VerifyFallback(env, d)
verify_signature(env, d, flag) ==
    IF Truthy(flag) THEN VerifyDone(NoExc, FALSE, <<>>)
    ELSE IF SIG \notin DOMAIN env \/ TS \notin DOMAIN env
    THEN VerifyDone(abort("401", "Missing signature or timestamp"), FALSE, <<>>)
    ELSE LET message == env[TS] \o d.raw_data IN
         IF ~env[SIG].hex
         THEN VerifyDone(Exc("ValueError", <<"fromhex">>), FALSE, <<"raw_data", "VerifyKey">>)
         ELSE IF Ed25519Verify(message, env[SIG])
         THEN VerifyDone(NoExc, FALSE, <<"raw_data", "VerifyKey", "verify">>)
         ELSE VerifyFallback(env, d)

\* handle_request, its first statement
Verify ==
    /\ pc = "handle"
    /\ LET r == verify_signature(environ, data, DONT_VALIDATE_SIGNATURE) IN
       /\ trace' = trace \o Steps(<<"verify_signature">> \o r.steps
                                 \o <<IF r.exc = NoExc THEN "verified" ELSE "rejected">>)
       /\ warned' = r.warn
       /\ exc' = r.exc
       /\ pc' = IF r.exc = NoExc THEN "classify" ELSE "except"
    /\ UNCHANGED <<config, token, threads, blueprints, registries, environ, data, allow_modal, result, started, returned>>

\* request["json"].get("type") as the == of handle_request sees it: the digits
\* of the int it equals (a bool is an int), <<>> when it equals no int
InteractionTypeOf(json) ==
    IF DictHas(json, "type") /\ DictGet(json, "type").k \in {"num", "bool"}
    THEN DictGet(json, "type").v ELSE <<>>
\* mutant: the constants are off by one
Branch_OffByOne(t) ==
    IF t = PING THEN "run_command"
    ELSE IF t = APPLICATION_COMMAND THEN "run_handler"
    ELSE IF t = MESSAGE_COMPONENT THEN "run_autocomplete"
    ELSE IF t = APPLICATION_COMMAND_AUTOCOMPLETE THEN "run_handler"
    ELSE "unsupported"
Branch(t) ==
    IF t = PING THEN "pong"
    ELSE IF t = APPLICATION_COMMAND THEN "run_command"
    ELSE IF t = MESSAGE_COMPONENT THEN "run_handler"
    ELSE IF t = APPLICATION_COMMAND_AUTOCOMPLETE THEN "run_autocomplete"
    ELSE IF t = MODAL_SUBMIT THEN "run_handler"
    ELSE "unsupported"
AllowModal(t) == t # MODAL_SUBMIT

\* handle_request after verification
Classify ==
    /\ pc = "classify"
    /\ Log(<<"type">>)
    /\ IF ~IsDict(data.json)
       THEN /\ exc' = Exc("AttributeError", <<"get">>)
            /\ pc' = "except"
            /\ UNCHANGED <<result, allow_modal>>
       ELSE LET t == InteractionTypeOf(data.json)
                b == Branch(t) IN
            /\ allow_modal' = AllowModal(t)
            /\ result' = IF b = "pong" THEN [raised |-> FALSE, kind |-> "Pong", content |-> ""]
                         ELSE result
            /\ exc' = IF b = "unsupported" THEN Exc("RuntimeWarning", t) ELSE NoExc
            /\ pc' = IF b = "pong" THEN "encode"
                     ELSE IF b = "unsupported" THEN "except" ELSE b
    /\ UNCHANGED <<config, token, threads, blueprints, registries, environ, data, started, returned, warned>>

\* what the callables may do ------------------------------------------------
CommandOutcomes(h) == {Ret("Message", h), Ret("str", h), Raises(h)}
HandlerOutcomes(h) == {Ret("Message", h), Ret("str", h), Ret("Modal", h), Raises(h)}
AutocompleteOutcomes(h) == {Ret("AutocompleteResult", h), Raises(h)}
Raised(o) == Exc("HandlerError", <<o.content>>)
\* the trace entry for what a callable did
Returned(o) == IF o.raised THEN <<"raise", o.content>> ELSE <<"return", o.kind, o.content>>

\* Command.make_context_and_run: run the callable, normalise what it returns
make_context_and_run(o) == from_return_value(o)

\* mutant: an unknown name falls back to some registered command
get_command_Fallback(commands, name) ==
    IF name.k = "str" /\ name.v \in DOMAIN commands
    THEN [found |-> TRUE, command |-> commands[name.v]]
    ELSE IF DOMAIN commands # {}
    THEN [found |-> TRUE, command |-> commands[CHOOSE n \in DOMAIN commands : TRUE]]
    ELSE [found |-> FALSE, command |-> Command("")]
\* self.discord_commands.get(command_name): found is FALSE for None
get_command(commands, name) ==
    IF name.k = "str" /\ name.v \in DOMAIN commands
    THEN [found |-> TRUE, command |-> commands[name.v]]
    ELSE [found |-> FALSE, command |-> Command("")]

\* run_command(data)
run_command ==
    /\ pc = "run_command"
    /\ LET f == DataField(data.json, "name") IN
       IF ~f.ok
       THEN /\ exc' = f.exc /\ pc' = "except" /\ UNCHANGED <<result, trace>>
       ELSE IF f.v.k = "obj"
       THEN /\ exc' = Exc("TypeError", <<"unhashable">>) /\ pc' = "except"
            /\ UNCHANGED <<result, trace>>
       ELSE IF ~get_command(discord_commands, f.v).found
       THEN /\ exc' = Exc("ValueError", <<"Invalid command name">>)
            /\ pc' = "except"
            /\ trace' = Append(trace, <<"get", "discord_commands">>)
            /\ UNCHANGED result
       ELSE LET h == get_command(discord_commands, f.v).command.command IN
            \E o \in CommandOutcomes(h) :
               /\ trace' = trace \o <<<<"get", "discord_commands">>, <<"run", h>>, Returned(o)>>
               /\ IF o.raised
                  THEN exc' = Raised(o) /\ pc' = "except" /\ UNCHANGED result
                  ELSE result' = make_context_and_run(o) /\ pc' = "encode" /\ exc' = NoExc
    /\ UNCHANGED <<config, token, threads, blueprints, registries, environ, data, allow_modal, started, returned, warned>>

\* Context.handler_state: the custom id split on the delimiter
handler_state(cid) == IF cid = "a|x" THEN <<"a", "x">> ELSE <<cid>>
\* Context.primary_id
primary_id(cid) == handler_state(cid)[1]
\* Context.create_handler_args
create_handler_args(cid) == Tail(handler_state(cid))

\* p is a leading part of the string q
IsPrefix(p, q) == p = q \/ <<p, q>> \in {<<"a", "a|x">>, <<"b", "b1">>}
\* mutant: without an exact match, a registered id that q starts with is taken
get_handler_Prefix(handlers, key) ==
    IF key \in DOMAIN handlers THEN [found |-> TRUE, handler |-> handlers[key]]
    ELSE IF \E p \in DOMAIN handlers : IsPrefix(p, key)
    THEN [found |-> TRUE,
          handler |-> handlers[CHOOSE p \in DOMAIN handlers : IsPrefix(p, key)]]
    ELSE [found |-> FALSE, handler |-> ""]
\* self.custom_id_handlers[context.primary_id]: found is FALSE for KeyError
get_handler(handlers, key) ==
    IF key \in DOMAIN handlers THEN [found |-> TRUE, handler |-> handlers[key]]
    ELSE [found |-> FALSE, handler |-> ""]

\* mutant: allow_modal is not consulted
HandlerResult_ModalAlways(o, allow) ==
    IF o.kind = "Modal" THEN [ok |-> TRUE, v |-> o]
    ELSE [ok |-> TRUE, v |-> from_return_value(o)]
\* what run_handler does with the value the handler returned
HandlerResult(o, allow) ==
    IF o.kind = "Modal"
    THEN IF allow THEN [ok |-> TRUE, v |-> o]
         ELSE [ok |-> FALSE, v |-> o]
    ELSE [ok |-> TRUE, v |-> from_return_value(o)]

\* run_handler(data, allow_modal=...)
run_handler ==
    /\ pc = "run_handler"
    /\ LET f == DataField(data.json, "custom_id") IN
       IF ~f.ok \/ f.v.k # "str"
       THEN /\ exc' = Exc("KeyError", <<"custom_id">>) /\ pc' = "except"
            /\ UNCHANGED <<result, trace>>
       ELSE IF ~get_handler(custom_id_handlers, primary_id(f.v.v)).found
       THEN /\ exc' = Exc("KeyError", <<primary_id(f.v.v)>>) /\ pc' = "except"
            /\ trace' = Append(trace, <<"getitem", "custom_id_handlers">>)
            /\ UNCHANGED result
       ELSE LET h == get_handler(custom_id_handlers, primary_id(f.v.v)).handler IN
            \E o \in HandlerOutcomes(h) :
               /\ trace' = trace \o <<<<"getitem", "custom_id_handlers">>,
                                      <<"run", h>> \o create_handler_args(f.v.v), Returned(o)>>
               /\ IF o.raised
                  THEN exc' = Raised(o) /\ pc' = "except" /\ UNCHANGED result
                  ELSE LET r == HandlerResult(o, allow_modal) IN
                       IF r.ok
                       THEN result' = r.v /\ pc' = "encode" /\ exc' = NoExc
                       ELSE /\ exc' = Exc("ValueError", <<"Cannot return a Modal to that interaction type.">>)
                            /\ pc' = "except" /\ UNCHANGED result
    /\ UNCHANGED <<config, token, threads, blueprints, registries, environ, data, allow_modal, started, returned, warned>>

\* run_autocomplete(data)
run_autocomplete ==
    /\ pc = "run_autocomplete"
    /\ LET f == DataField(data.json, "name") IN
       IF ~f.ok
       THEN /\ exc' = f.exc /\ pc' = "except" /\ UNCHANGED <<result, trace>>
       ELSE IF f.v.k = "obj"
       THEN /\ exc' = Exc("TypeError", <<"unhashable">>) /\ pc' = "except"
            /\ UNCHANGED <<result, trace>>
       ELSE IF f.v.k # "str" \/ f.v.v \notin DOMAIN discord_commands
       THEN /\ exc' = Exc("KeyError", <<"name">>) /\ pc' = "except"
            /\ trace' = Append(trace, <<"getitem", "discord_commands">>)
            /\ UNCHANGED result
       ELSE LET h == discord_commands[f.v.v].command IN
            \E o \in AutocompleteOutcomes(h) :
               /\ trace' = trace \o <<<<"getitem", "discord_commands">>, <<"run_autocomplete", h>>,
                                      Returned(o)>>
               /\ IF o.raised
                  THEN exc' = Raised(o) /\ pc' = "except" /\ UNCHANGED result
                  ELSE result' = o /\ pc' = "encode" /\ exc' = NoExc
    /\ UNCHANGED <<config, token, threads, blueprints, registries, environ, data, allow_modal, started, returned, warned>>

OK200 == <<"200", "OK">>
\* mutant: the response path drops the cached token and the registered ids
Respond_Resetting ==
    /\ pc = "encode"
    /\ started' = Append(started, <<OK200, <<"Content-Type", encode(result)[2]>>>>)
    /\ returned' = encode(result)[1]
    /\ pc' = "done"
    /\ discord_token' = NoToken
    /\ discord_commands' = [n \in DOMAIN discord_commands |-> [discord_commands[n] EXCEPT !.id = NoId]]
    /\ UNCHANGED <<config, now, last_call, threads, blueprints, custom_id_handlers,
                   last_registration, environ, data, allow_modal, result, exc, trace, warned>>
\* __call__: encode the result and start the response
Respond ==
    /\ pc = "encode"
    /\ started' = Append(started, <<OK200, <<"Content-Type", encode(result)[2]>>>>)
    /\ returned' = encode(result)[1]
    /\ pc' = "done"
    /\ UNCHANGED <<config, token, threads, blueprints, registries, environ, data, allow_modal, result, exc, trace, warned>>

\* __call__, except AbortError as err: the start_response call and the body
AbortResponse(err) ==
    [start |-> <<err.arg, <<"Content-Type", "application/json">>>>,
     body |-> <<"error", err.arg>>]
ExceptAbort ==
    /\ pc = "except"
    /\ exc.type = "AbortError"
    /\ started' = Append(started, AbortResponse(exc).start)
    /\ returned' = AbortResponse(exc).body
    /\ exc' = NoExc
    /\ pc' = "done"
    /\ UNCHANGED <<config, token, threads, blueprints, registries, environ, data, allow_modal, result, trace, warned>>

\* any other exception leaves __call__
Propagate ==
    /\ pc = "except"
    /\ exc.type # "AbortError"
    /\ pc' = "raised"
    /\ UNCHANGED <<config, token, threads, blueprints, registries, environ, data, allow_modal, result, exc, started,
                   returned, trace, warned>>

\* __call__ has returned or raised: the server is done with the request
Return ==
    /\ pc \in {"done", "raised"}
    /\ pc' = "idle"
    /\ RequestReset(EmptyDict)
    /\ UNCHANGED <<config, token, threads, blueprints, registries>>

Step ==
    \/ ReadBody
    \/ Verify
    \/ Classify
    \/ run_command
    \/ run_handler
    \/ run_autocomplete
    \/ Respond
    \/ ExceptAbort
    \/ Propagate
    \/ Return

\* requests ------------------------------------------------------------------
TypeOnly(t) == <<"{", "type", ":", t, "}">>
WithData(t, field, val) ==
    <<"{", "type", ":", t, ",", "data", ":", "{", field, ":", val, "}", "}">>
Bodies ==
    {TypeOnly(t) : t \in {"1", "2", "6", "true", "a"}}
    \cup {<<"{", "}">>, <<"1">>, <<"{">>, <<BadByte>>, <<"{", "type", ":", WS, "1", "}">>}
    \cup {WithData(t, "name", n) : t \in {"2", "4"}, n \in {"a", "b1"}}
    \cup {WithData(t, "custom_id", c) : t \in {"3", "5"}, c \in {"a", "a|x", "b1"}}
Timestamps == {<<"1">>}
MaxFlip == 1
Signatures(ts, body) ==
    {NotHex, SignatureOf(ts \o <<"{", "}">>, 0), SignatureOf(ts \o BytesRepr(body), 0)}
    \cup {SignatureOf(ts \o body, f) : f \in 0..MaxFlip}
Requests ==
    LET full == {[k \in {SIG, TS, INPUT} |->
                    IF k = INPUT THEN b ELSE IF k = TS THEN ts ELSE NotHex] :
                 b \in Bodies, ts \in Timestamps}
        signed == UNION {{[e EXCEPT ![SIG] = sg] : sg \in Signatures(e[TS], e[INPUT])} : e \in full}
        Drop(e, key) == [k \in DOMAIN e \ {key} |-> e[k]]
    IN signed \cup {Drop(e, key) : e \in signed, key \in {SIG, TS, INPUT}}

Next ==
    \/ \E name \in Names, h \in Handlers : add_command(name, h)
    \/ \E id \in CustomIds, h \in Handlers : add_custom_handler(id, h)
    \/ \E e \in Requests : Receive(e)
    \/ Step
Spec == Init /\ [][Next]_vars

(***************************************************************************)
(* The wire.  The platform signs timestamp + body; the transport delivers  *)
(* the body as signed, with JSON whitespace added, or with one byte        *)
(* changed, and the signature as sent or with one byte changed.  The       *)
(* registries are the ones a start-up registration left.                   *)
(***************************************************************************)
MaxPad == 1
Insertions(s) ==
    {SubSeq(s, 1, i) \o <<WS>> \o SubSeq(s, i + 1, Len(s)) : i \in 0..Len(s)}
RECURSIVE Padded(_, _)
Padded(s, n) ==
    IF n = 0 THEN {s} ELSE {s} \cup UNION {Padded(t, n - 1) : t \in Insertions(s)}
Mutations(s) ==
    {[s EXCEPT ![i] = a] : i \in 1..Len(s), a \in Atoms \cup {BadByte}} \ {s}
SignedBodies ==
    {<<"{">>, TypeOnly("1"), <<"{", "type", ":", WS, "1", "}">>, WithData("2", "name", "a"),
     WithData("3", "custom_id", "a"), WithData("4", "name", "a")}
Delivered(s) == Padded(s, MaxPad) \cup Mutations(s)
WireRequests ==
    UNION {{[k \in {SIG, TS, INPUT} |->
               IF k = INPUT THEN r ELSE IF k = TS THEN ts ELSE SignatureOf(m, f)] :
            r \in Delivered(s), f \in 0..MaxFlip, m \in {ts \o s, ts \o BytesRepr(s)}} :
           s \in SignedBodies, ts \in Timestamps}

InitVerify ==
    /\ os_environ = EmptyDict
    /\ DONT_VALIDATE_SIGNATURE = getenv(os_environ, "DONT_VALIDATE_SIGNATURE")
    /\ DONT_REGISTER_WITH_DISCORD = getenv(os_environ, "DONT_REGISTER_WITH_DISCORD")
    /\ InitToken
    /\ InitThreads
    /\ InitBlueprints
    /\ discord_commands = [n \in {"a"} |-> Command("h1")]
    /\ custom_id_handlers = [n \in {"a"} |-> "h2"]
    /\ InitRequest
NextVerify ==
    \/ \E e \in WireRequests : Receive(e)
    \/ Step
SpecVerify == InitVerify /\ [][NextVerify]_vars

(***************************************************************************)
(* The administrative path: the token cache and update_commands.  Time is  *)
(* counted in seconds; the platform declares lifetimes that are an even    *)
(* number of seconds, so that expires_in / 2 is exact.  A token records    *)
(* when it was obtained in the field `at`; the code keeps no such field.   *)
(***************************************************************************)
MaxTime == 4
MaxHalfLife == 2
Lifetimes == {2 * k : k \in 1..MaxHalfLife}
SyntheticLifetime == 604800
\* what the token endpoint answers: a token with a lifetime, or an error status
TokenResponses ==
    {[ok |-> TRUE, expires_in |-> e] : e \in Lifetimes} \cup {[ok |-> FALSE, expires_in |-> 0]}
POST_TOKEN == <<"POST", "/oauth2/token">>
PUT_COMMANDS == <<"PUT", "/commands">>

\* mutant: the token is cached for its whole declared lifetime
WithExpiry_FullLifetime(access, e, t) ==
    [access_token |-> access, expires_in |-> e, expires_on |-> t + e, at |-> t]
\* discord_token["expires_on"] = time.time() + discord_token["expires_in"] / 2
WithExpiry(access, e, t) ==
    [access_token |-> access, expires_in |-> e, expires_on |-> t + e \div 2, at |-> t]

FetchDone(e, tok, out) == [exc |-> e, token |-> tok, outbound |-> out]
\* mutant: the bypass flag is ignored
fetch_token_AlwaysPost(flag, t, resp) ==
    IF ~resp.ok THEN FetchDone(Exc("HTTPError", POST_TOKEN), NoToken, <<POST_TOKEN>>)
    ELSE FetchDone(NoExc, WithExpiry(<<"issued", t>>, resp.expires_in, t), <<POST_TOKEN>>)
\* fetch_token() at time t, the token endpoint answering resp
fetch_token(flag, t, resp) ==
    IF Truthy(flag)
    THEN FetchDone(NoExc, WithExpiry(<<"DONT_REGISTER_WITH_DISCORD">>, SyntheticLifetime, t), <<>>)
    ELSE IF ~resp.ok THEN FetchDone(Exc("HTTPError", POST_TOKEN), NoToken, <<POST_TOKEN>>)
    ELSE FetchDone(NoExc, WithExpiry(<<"issued", t>>, resp.expires_in, t), <<POST_TOKEN>>)

\* mutant: a cached token is never refreshed
NeedsFetch_OnlyWhenEmpty(tok, t) == tok = NoToken
\* self.discord_token is None or time.time() > self.discord_token["expires_on"]
NeedsFetch(tok, t) == tok = NoToken \/ t > tok.expires_on

\* {"Authorization": f"Bearer {self.discord_token['access_token']}"}
Bearer(tok) == <<"Authorization", "Bearer", tok.access_token>>
\* fetches: the calls of fetch_token auth_headers made
AuthDone(e, tok, hdr, n, out) ==
    [exc |-> e, token |-> tok, header |-> hdr, fetches |-> n, outbound |-> out]
\* mutant: a failed fetch empties the slot
auth_headers_ClearingOnFailure(tok, flag, t, resp) ==
    IF NeedsFetch(tok, t)
    THEN LET f == fetch_token(flag, t, resp) IN
         IF f.exc # NoExc THEN AuthDone(f.exc, NoToken, <<>>, 1, f.outbound)
         ELSE AuthDone(NoExc, f.token, Bearer(f.token), 1, f.outbound)
    ELSE AuthDone(NoExc, tok, Bearer(tok), 0, <<>>)
\* auth_headers() run by one caller at time t: the exception it raises, the
\* token it leaves cached, the header it returns and the requests it sends
auth_headers(tok, flag, t, resp) ==
    IF NeedsFetch(tok, t)
    THEN LET f == fetch_token(flag, t, resp) IN
         IF f.exc # NoExc THEN AuthDone(f.exc, tok, <<>>, 1, f.outbound)
         ELSE AuthDone(NoExc, f.token, Bearer(f.token), 1, f.outbound)
    ELSE AuthDone(NoExc, tok, Bearer(tok), 0, <<>>)

\* the record of an administrative call
Call(op, e, hdr, ret, n, out) ==
    [op |-> op, at |-> now, before |-> discord_token, exc |-> e, header |-> hdr,
     ret |-> ret, fetches |-> n, outbound |-> out]

\* the clock advances between calls
Tick ==
    /\ Between
    /\ now < MaxTime
    /\ now' = now + 1
    /\ UNCHANGED <<config, discord_token, last_call, threads, blueprints, registries, pc, request>>

\* a caller runs auth_headers() from start to end
AuthHeaders ==
    /\ Between
    /\ \E resp \in TokenResponses :
          LET r == auth_headers(discord_token, DONT_REGISTER_WITH_DISCORD, now, resp) IN
          /\ discord_token' = r.token
          /\ last_call' = Call("auth_headers", r.exc, r.header, NoToken, r.fetches, r.outbound)
    /\ UNCHANGED <<config, now, threads, blueprints, registries, pc, request>>

\* a caller runs fetch_token() itself: the token is returned, not cached
FetchToken ==
    /\ Between
    /\ \E resp \in TokenResponses :
          LET f == fetch_token(DONT_REGISTER_WITH_DISCORD, now, resp) IN
          last_call' = Call("fetch_token", f.exc, <<>>, f.token, 1, f.outbound)
    /\ UNCHANGED <<config, discord_token, now, threads, blueprints, registries, pc, request>>

SyntheticId(n) == <<n>>
PlatformId(n) == <<"id", n>>
\* command.id = ... for every registered command: its name under the bypass
\* flag, else the id the platform answered
WithIds(commands, synthetic) ==
    [n \in DOMAIN commands |->
       [commands[n] EXCEPT !.id = IF synthetic THEN SyntheticId(n) ELSE PlatformId(n)]]
UpdateDone(e, tok, commands, n, out) ==
    [exc |-> e, token |-> tok, commands |-> commands, fetches |-> n, outbound |-> out]
\* update_commands() at time t: the token endpoint would answer resp, and the
\* commands endpoint answers 2xx iff put_ok
update_commands(commands, tok, flag, t, resp, put_ok) ==
    IF Truthy(flag) THEN UpdateDone(NoExc, tok, WithIds(commands, TRUE), 0, <<>>)
    ELSE LET a == auth_headers(tok, flag, t, resp) IN
         IF a.exc # NoExc THEN UpdateDone(a.exc, a.token, commands, a.fetches, a.outbound)
         ELSE IF ~put_ok
         THEN UpdateDone(Exc("ValueError", <<"Unable to register commands">>), a.token, commands,
                         a.fetches, Append(a.outbound, PUT_COMMANDS))
         ELSE UpdateDone(NoExc, a.token, WithIds(commands, FALSE), a.fetches,
                         Append(a.outbound, PUT_COMMANDS))

UpdateCommands ==
    /\ Between
    /\ \E resp \in TokenResponses, put_ok \in BOOLEAN :
          LET u == update_commands(discord_commands, discord_token, DONT_REGISTER_WITH_DISCORD,
                                   now, resp, put_ok) IN
          /\ discord_token' = u.token
          /\ discord_commands' = u.commands
          /\ last_call' = Call("update_commands", u.exc, <<>>, NoToken, u.fetches, u.outbound)
    /\ UNCHANGED <<config, now, threads, blueprints, custom_id_handlers, last_registration, pc,
                   request>>

\* the instance of the administrative runs: commands registered at start-up,
\* the bypass flag as the environment sets it, signatures validated
AdminEnvironments ==
    {EmptyDict} \cup {[k \in {"DONT_REGISTER_WITH_DISCORD"} |-> v] : v \in EnvValues}
InitAdmin ==
    /\ os_environ \in AdminEnvironments
    /\ DONT_VALIDATE_SIGNATURE = getenv(os_environ, "DONT_VALIDATE_SIGNATURE")
    /\ DONT_REGISTER_WITH_DISCORD = getenv(os_environ, "DONT_REGISTER_WITH_DISCORD")
    /\ InitToken
    /\ InitThreads
    /\ InitBlueprints
    /\ discord_commands = [n \in {"a"} |-> Command("h1")]
    /\ custom_id_handlers = [n \in {"a"} |-> "h2"]
    /\ InitRequest
\* inbound requests, signed by the platform except the last
Signed(body) ==
    [k \in {SIG, TS, INPUT} |->
       IF k = INPUT THEN body ELSE IF k = TS THEN <<"1">> ELSE SignatureOf(<<"1">> \o body, 0)]
AdminRequests ==
    {Signed(b) : b \in {TypeOnly("1"), TypeOnly("6"), <<"{">>, WithData("2", "name", "a"),
                        WithData("2", "name", "b1"), WithData("3", "custom_id", "a"),
                        WithData("4", "name", "a")}}
    \cup {[Signed(TypeOnly("1")) EXCEPT ![SIG] = SignatureOf(<<"1">> \o TypeOnly("1"), 1)]}
NextToken ==
    \/ Tick
    \/ AuthHeaders
    \/ FetchToken
    \/ UpdateCommands
    \/ \E e \in AdminRequests : Receive(e)
    \/ Step
SpecToken == InitAdmin /\ [][NextToken]_vars

(***************************************************************************)
(* auth_headers called from several threads.  The code takes no lock: a    *)
(* thread tests the cached token (line 321), sends the token request, gets *)
(* the response, stores the token (line 322) and reads it back for the     *)
(* header (line 323), and the other threads run between these steps.       *)
(***************************************************************************)
MaxCalls == 2
At(th, where) == thread_pc[th] = where
Goto(th, where) == thread_pc' = [thread_pc EXCEPT ![th] = where]

\* the thread enters auth_headers and evaluates the condition of line 321;
\* when it holds, fetch_token sends the token request (or, with the bypass
\* flag, builds the synthetic token)
EnterAuthHeaders(th) ==
    /\ At(th, "idle")
    /\ calls[th] < MaxCalls
    /\ calls' = [calls EXCEPT ![th] = @ + 1]
    /\ IF ~NeedsFetch(discord_token, now)
       THEN Goto(th, "return") /\ UNCHANGED <<thread_token, token_requests>>
       ELSE IF Truthy(DONT_REGISTER_WITH_DISCORD)
       THEN /\ thread_token' =
                 [thread_token EXCEPT ![th] = fetch_token(DONT_REGISTER_WITH_DISCORD, now,
                                                          [ok |-> TRUE, expires_in |-> 0]).token]
            /\ Goto(th, "store")
            /\ UNCHANGED token_requests
       ELSE /\ token_requests' = Append(token_requests, th)
            /\ Goto(th, "wait")
            /\ UNCHANGED thread_token
    /\ UNCHANGED <<config, token, blueprints, registries, pc, request>>

\* the token endpoint answers the thread's request: raise_for_status() raises
\* and the call ends, or the token is stamped with its expiry
TokenResponse(th) ==
    /\ At(th, "wait")
    /\ \E resp \in TokenResponses :
          LET f == fetch_token(DONT_REGISTER_WITH_DISCORD, now, resp) IN
          IF f.exc # NoExc
          THEN Goto(th, "idle") /\ UNCHANGED thread_token
          ELSE Goto(th, "store") /\ thread_token' = [thread_token EXCEPT ![th] = f.token]
    /\ UNCHANGED <<config, token, calls, token_requests, blueprints, registries, pc, request>>

\* self.discord_token = self.fetch_token()
StoreToken(th) ==
    /\ At(th, "store")
    /\ discord_token' = thread_token[th]
    /\ thread_token' = [thread_token EXCEPT ![th] = NoToken]
    /\ Goto(th, "return")
    /\ UNCHANGED <<config, now, last_call, calls, token_requests, blueprints, registries, pc,
                   request>>

\* return {"Authorization": ...}: the header is built from self.discord_token
ReturnHeaders(th) ==
    /\ At(th, "return")
    /\ last_call' = [Call("auth_headers", NoExc, Bearer(discord_token), NoToken, 0, <<>>)
                       EXCEPT !.before = NoToken]
    /\ Goto(th, "idle")
    /\ UNCHANGED <<config, discord_token, now, thread_token, calls, token_requests, blueprints,
                   registries, pc, request>>

NextThreads ==
    \/ Tick
    \/ \E th \in Threads : EnterAuthHeaders(th)
    \/ \E th \in Threads : TokenResponse(th)
    \/ \E th \in Threads : StoreToken(th)
    \/ \E th \in Threads : ReturnHeaders(th)
SpecThreads == InitAdmin /\ [][NextThreads]_vars

(***************************************************************************)
(* Registration.  The root registers the callable h1 and command groups;   *)
(* each blueprint registers a callable of its own, so that an entry of the *)
(* root tells where it came from.                                          *)
(***************************************************************************)
BlueprintCallable(b) == IF b = "A" THEN "g1" ELSE "g2"
NextRegistry ==
    \/ \E name \in Names : add_command(name, "h1")
    \/ \E name \in Names : command_group(name)
    \/ \E id \in CustomIds : add_custom_handler(id, "h1")
    \/ \E b \in Blueprints, name \in Names : blueprint_add_command(b, name, BlueprintCallable(b))
    \/ \E b \in Blueprints : blueprint_add_custom_handler(b, "a", BlueprintCallable(b))
    \/ \E b \in Blueprints : register_blueprint(b)
SpecRegistry == Init /\ [][NextRegistry]_vars

(***************************************************************************)
(* Properties                                                              *)
(***************************************************************************)
InTrace(ev) == \E i \in 1..Len(trace) : trace[i] = ev
StepAt(i) == trace[i][1]
Ran == \E i \in 1..Len(trace) : StepAt(i) \in {"run", "run_autocomplete"}
LookedUp == \E i \in 1..Len(trace) : StepAt(i) \in {"get", "getitem"}
Crypto == \E i \in 1..Len(trace) : StepAt(i) \in {"VerifyKey", "verify"}
Ended == pc \in {"done", "raised"}
ValidationOn == ~Truthy(DONT_VALIDATE_SIGNATURE)
VerifyCalled == InTrace(<<"verify_signature">>)
Verified == InTrace(<<"verified">>)
Rejected == InTrace(<<"rejected">>)
\* the request was answered with one response of this status code
Answered(code) == pc = "done" /\ Len(started) = 1 /\ started[1][1][1] = code
Parseable(raw) == Utf8Ok(raw) /\ json_loads(raw).ok
HeadersPresent == SIG \in DOMAIN environ /\ TS \in DOMAIN environ
HasBody == INPUT \in DOMAIN environ

\* C1: with validation enabled, verify_signature has returned before the
\* interaction type is read, before any registry lookup and before any handler
\* runs; a request whose verification fails ends with one 401 response and no
\* handler invoked.
C1_VerifiedFirstElse401 ==
    ValidationOn =>
       /\ \A i \in 1..Len(trace) :
             StepAt(i) \in {"type", "get", "getitem", "run", "run_autocomplete"}
                => \E j \in 1..(i - 1) : trace[j] = <<"verified">>
       /\ Rejected => ~Ran /\ (Ended => Answered("401"))

\* the bytes the signature in the header was made over, less the timestamp
SignedOver == environ[SIG].of
TsIsPrefix == /\ Len(SignedOver) >= Len(environ[TS])
              /\ SubSeq(SignedOver, 1, Len(environ[TS])) = environ[TS]
SignedBody == SubSeq(SignedOver, Len(environ[TS]) + 1, Len(SignedOver))
OneByteChanged(x, y) ==
    Len(x) = Len(y) /\ Cardinality({i \in 1..Len(x) : x[i] # y[i]}) = 1
OnTheWire == pc # "idle" /\ HeadersPresent /\ HasBody /\ environ[SIG].hex /\ TsIsPrefix
\* the signature of timestamp + body, for the body received
Genuine == OnTheWire /\ environ[SIG].flip = 0 /\ SignedBody = environ[INPUT]
\* one byte of the signature, or one byte of the body, was changed after signing
Tampered ==
    /\ OnTheWire
    /\ \/ environ[SIG].flip > 0 /\ SignedBody = environ[INPUT]
       \/ environ[SIG].flip = 0 /\ OneByteChanged(SignedBody, environ[INPUT])

\* C2, as claimed: verify_signature succeeds on the signature of timestamp +
\* raw body; with one byte of the signature or of the body changed the request
\* is rejected with 401.
C2_TamperedIs401 ==
    /\ (Genuine /\ VerifyCalled) => Verified
    /\ (Tampered /\ Ended) => Answered("401")

\* C2, amended: verify_signature succeeds on the signature of timestamp + raw
\* body; with one byte of the signature or of the body changed the request is
\* never verified and no handler runs: it is answered 401 by verify_signature
\* when the body still parses, and 400 before verify_signature is called when
\* the changed body no longer parses.
C2_TamperedNeverVerified ==
    /\ (Genuine /\ VerifyCalled) => Verified
    /\ Tampered => /\ ~Verified /\ ~Ran /\ pc # "raised"
                   /\ Ended => IF Parseable(environ[INPUT])
                               THEN Answered("401") /\ Rejected
                               ELSE Answered("400") /\ ~VerifyCalled
C2_Witness ==
    /\ Tampered /\ Answered("401") /\ environ[SIG].flip = 0
    /\ Parseable(environ[INPUT])

StripWs(x) == SelectSeq(x, LAMBDA a : a # WS)
\* the body received differs from the signed one only in JSON whitespace and
\* re-serialises to exactly the signed bytes
WhitespaceOnly ==
    /\ OnTheWire /\ environ[SIG].flip = 0
    /\ environ[INPUT] # SignedBody
    /\ StripWs(environ[INPUT]) = StripWs(SignedBody)
    /\ json_loads(environ[INPUT]).ok
    /\ json_dumps(json_loads(environ[INPUT]).v) = SignedBody

\* C3: when the raw check fails, a body that differs from the signed body only
\* in JSON whitespace and whose minimal re-serialisation is the signed bytes is
\* accepted with a warning; a body failing both checks is rejected with 401.
C3_WhitespaceFallback ==
    (ValidationOn /\ Ended /\ VerifyCalled) =>
       /\ WhitespaceOnly => Verified /\ warned
       /\ (OnTheWire /\ ~Verified) => Answered("401")

\* C4: the response to a request with a missing signature or timestamp header
\* and the response to a request with an invalid signature are the same:
\* status line, headers and body.
MissingResponse == AbortResponse(abort("401", "Missing signature or timestamp"))
C4_SameResponse ==
    (ValidationOn /\ Rejected /\ pc = "done") =>
       /\ started = <<MissingResponse.start>>
       /\ returned = MissingResponse.body

\* C5, as claimed: with validation enabled a request lacking the signature or
\* the timestamp header is rejected with 401 before any key construction or
\* verification step, whatever its body.
C5_MissingIs401 ==
    (ValidationOn /\ Ended /\ ~HeadersPresent) => Answered("401") /\ ~Crypto

\* C5, amended: with validation enabled a request lacking the signature or the
\* timestamp header never reaches a key construction or verification step nor
\* a handler; it is answered 401 by verify_signature when its body parses as
\* JSON, and 400 before verify_signature is called when it does not.
C5_MissingRejectedEarly ==
    (ValidationOn /\ pc # "idle" /\ ~HeadersPresent) =>
       /\ ~Crypto /\ ~Verified /\ ~Ran /\ pc # "raised"
       /\ Ended => IF HasBody /\ Parseable(environ[INPUT])
                   THEN Answered("401") /\ Rejected
                   ELSE Answered("400") /\ ~VerifyCalled
C5_Witness ==
    /\ ValidationOn /\ ~HeadersPresent /\ Answered("401") /\ Rejected
    /\ HasBody /\ IsDict(data.json)
    /\ InteractionTypeOf(data.json) = APPLICATION_COMMAND

\* a successful signature check stands behind the verification of this request
SignatureChecked ==
    /\ HeadersPresent /\ environ[SIG].hex /\ InTrace(<<"verify">>)
    /\ \E m \in {environ[TS] \o data.raw_data,
                 environ[TS] \o BytesRepr(json_dumps(data.json))} :
          Ed25519Verify(m, environ[SIG])

\* C6: verification is skipped exactly when DONT_VALIDATE_SIGNATURE is set.
\* Set: verify_signature returns for every request, whatever its headers and
\* body, without reading the body or making a key.  Not provided in the
\* environment: the flag is off.  Off: nothing is verified, and the interaction
\* type is not read, without a successful signature check.
C6_BypassOnlyByFlag ==
    /\ "DONT_VALIDATE_SIGNATURE" \notin DOMAIN os_environ => ValidationOn
    /\ (~ValidationOn /\ VerifyCalled) =>
          Verified /\ ~Crypto /\ ~InTrace(<<"raw_data">>)
    /\ (ValidationOn /\ (Verified \/ InTrace(<<"type">>))) => SignatureChecked
C6_Witness ==
    /\ ~ValidationOn /\ Verified /\ InTrace(<<"type">>)
    /\ SIG \notin DOMAIN environ

TypeIs(t) == pc # "idle" /\ InTrace(<<"type">>) /\ IsDict(data.json)
             /\ InteractionTypeOf(data.json) = t
JsonResponse(body) ==
    pc = "done" /\ started = <<<<OK200, <<"Content-Type", "application/json">>>>>>
    /\ returned = body

\* C7: a verified Ping is answered with the fixed pong, mimetype
\* application/json, with no registry lookup and no handler run, whatever the
\* registries hold.
C7_PingIsPong ==
    (Verified /\ TypeIs(PING)) =>
       /\ ~LookedUp /\ ~Ran
       /\ pc \in {"encode", "done"}
       /\ result.kind = "Pong"
       /\ pc = "done" => JsonResponse(PongBody)
C7_Witness ==
    /\ Verified /\ TypeIs(PING) /\ JsonResponse(PongBody)
    /\ DOMAIN discord_commands = Names /\ DOMAIN custom_id_handlers = CustomIds

Runs == {i \in 1..Len(trace) : StepAt(i) \in {"run", "run_autocomplete"}}
NameField == DataField(data.json, "name")
CommandDispatched ==
    /\ Verified /\ TypeIs(APPLICATION_COMMAND) /\ pc # "run_command"
    /\ NameField.ok /\ NameField.v.k = "str"
RegisteredName == NameField.v.v \in DOMAIN discord_commands

C9_HandlerErrorCaught ==
    (Ended /\ \E i \in 1..Len(trace) : StepAt(i) = "raise") =>
       /\ pc = "done"
       /\ Len(started) = 1
       /\ returned # NoBody /\ returned[1] = "error"

\* C10: a Modal returned by a custom-id handler is returned unchanged for a
\* MessageComponent and is an error for a ModalSubmit (never a result, never a
\* response); any other return value becomes a Message for both types.
C10_ModalOnlyForComponent ==
    \A t \in {MESSAGE_COMPONENT, MODAL_SUBMIT}, h \in Handlers,
       kind \in {"Message", "str", "Modal"} :
       (TypeIs(t) /\ InTrace(<<"return", kind, h>>)) =>
          IF kind # "Modal"
          THEN result = [Ret(kind, h) EXCEPT !.kind = "Message"] /\ pc \in {"encode", "done"}
          ELSE IF t = MESSAGE_COMPONENT
          THEN /\ result = Ret("Modal", h)
               /\ pc \in {"encode", "done"}
               /\ pc = "done" => JsonResponse(<<"type", "Modal", h>>)
          ELSE /\ result = NoResult
               /\ exc = Exc("ValueError", <<"Cannot return a Modal to that interaction type.">>)
               /\ pc \in {"except", "raised"}
               /\ started = <<>> /\ returned = NoBody
C10_Witness ==
    /\ TypeIs(MODAL_SUBMIT) /\ pc = "raised"
    /\ \E h \in Handlers : InTrace(<<"return", "Modal", h>>)

\* the type field is one of the five values of class InteractionType
EnumeratedType(json) ==
    /\ DictHas(json, "type")
    /\ DictGet(json, "type").k = "num"
    /\ DictGet(json, "type").v \in {PING, APPLICATION_COMMAND, MESSAGE_COMPONENT,
                                    APPLICATION_COMMAND_AUTOCOMPLETE, MODAL_SUBMIT}
Unsupported ==
    pc # "idle" /\ Verified /\ InTrace(<<"type">>) /\ IsDict(data.json)
    /\ ~EnumeratedType(data.json)

\* C11: a verified request whose type field is absent or is not one of the
\* five interaction types ends in the unsupported-type error (RuntimeWarning,
\* not the 401 of a failed verification): no handler runs, no registry is
\* consulted and no 200 response is produced.
C11_UnsupportedIsError ==
    Unsupported =>
       /\ ~Ran /\ ~LookedUp
       /\ ~Answered("200")
       /\ pc \in {"except", "raised"}
       /\ exc.type = "RuntimeWarning"

\* the body is missing, is not UTF-8 or is not JSON
Unreadable ==
    pc # "idle" /\ InTrace(<<"read_body">>) /\ ~(HasBody /\ Parseable(environ[INPUT]))
MalformedBody == <<"400", "Malformed or missing JSON body">>

\* C12: a request whose body cannot be read or parsed as JSON is answered 400
\* with a JSON error body whatever its signature headers are; verify_signature
\* is not called, no registry is consulted and no handler runs.
C12_MalformedIs400 ==
    Unreadable =>
       /\ ~VerifyCalled /\ ~LookedUp /\ ~Ran
       /\ pc \in {"except", "done"}
       /\ pc = "except" => exc = Exc("AbortError", MalformedBody)
       /\ pc = "done" =>
            /\ Answered("400")
            /\ started[1][2] = <<"Content-Type", "application/json">>
            /\ returned = <<"error", MalformedBody>>
\* an unparseable body that carries the platform's own signature is answered 400
C12_Witness ==
    /\ Unreadable /\ Answered("400") /\ HasBody
    /\ {SIG, TS} \subseteq DOMAIN environ
    /\ Ed25519Verify(environ[TS] \o environ[INPUT], environ[SIG])

\* the token cache -----------------------------------------------------------
AuthCall == last_call.op = "auth_headers"
BypassRegister == Truthy(DONT_REGISTER_WITH_DISCORD)
\* what the last auth_headers call did: one fetch that replaced the cached
\* token, or no fetch and the cached token returned
FetchedOnce ==
    /\ last_call.fetches = 1
    /\ ~BypassRegister => last_call.outbound = <<POST_TOKEN>>
    /\ last_call.exc = NoExc =>
         /\ discord_token # last_call.before
         /\ discord_token.at = last_call.at
         /\ last_call.header = Bearer(discord_token)
ReusedCached ==
    /\ last_call.fetches = 0
    /\ last_call.outbound = <<>>
    /\ last_call.exc = NoExc
    /\ discord_token = last_call.before
    /\ last_call.header = Bearer(last_call.before)

\* C13 as stated: the call fetches when no token is cached or now >= the
\* cached token's expiry, and reuses the cached token otherwise.
C13_FetchAtOrAfterExpiry ==
    (AuthCall /\ last_call.exc = NoExc) =>
       IF last_call.before = NoToken \/ last_call.at >= last_call.before.expires_on
       THEN FetchedOnce ELSE ReusedCached
\* C13: every auth_headers call makes exactly one fetch, replacing the cached
\* token when the fetch succeeds, if no token is cached or now is strictly
\* after the cached token's expiry; otherwise, the instant of expiry
\* included, it makes no fetch and returns the cached token.
C13_FetchAfterExpiry ==
    AuthCall =>
       IF last_call.before = NoToken \/ last_call.at > last_call.before.expires_on
       THEN FetchedOnce ELSE ReusedCached
\* a call after the expiry of a cached token fetched a new one
C13_Witness ==
    /\ AuthCall /\ last_call.exc = NoExc /\ ~BypassRegister
    /\ last_call.before # NoToken
    /\ last_call.at > last_call.before.expires_on
    /\ discord_token.at = last_call.at
    /\ discord_token # last_call.before

\* the threads whose token request has been sent and not yet answered
InFlight == {th \in Threads : thread_pc[th] = "wait"}

\* C14: among the threads that call auth_headers, at most one token request
\* is in flight at any time.
C14_OneFetchInFlight == Cardinality(InFlight) <= 1

\* C15: the cached token's expiry is its fetch time plus half its declared
\* lifetime, and a header auth_headers returns at time t carries the cached
\* token, with t not past that expiry nor past the fetch time plus the full
\* lifetime.
C15_HalfLifeExpiry ==
    /\ discord_token # NoToken =>
         2 * (discord_token.expires_on - discord_token.at) = discord_token.expires_in
    /\ (AuthCall /\ last_call.exc = NoExc) =>
         /\ last_call.header = Bearer(discord_token)
         /\ last_call.at <= discord_token.expires_on
         /\ last_call.at <= discord_token.at + discord_token.expires_in
\* a cached platform token is handed out at the very instant of its expiry
C15_Witness ==
    /\ AuthCall /\ last_call.exc = NoExc /\ ~BypassRegister
    /\ last_call.fetches = 0
    /\ last_call.header = Bearer(discord_token)
    /\ last_call.at = discord_token.expires_on
    /\ discord_token.at < last_call.at

\* registries --------------------------------------------------------------
\* after is before with every entry of arg written over it
MergedInto(before, arg, after) ==
    /\ DOMAIN after = DOMAIN before \cup DOMAIN arg
    /\ \A n \in DOMAIN arg : after[n] = arg[n]
    /\ \A n \in DOMAIN before \ DOMAIN arg : after[n] = before[n]
Disjoint(d, e) == DOMAIN d \cap DOMAIN e = {}
\* registering x then y on the root gives the registries of y then x
SameEitherOrder(x, y) ==
    /\ dict_update(dict_update(discord_commands, blueprint_commands[x]), blueprint_commands[y])
         = dict_update(dict_update(discord_commands, blueprint_commands[y]), blueprint_commands[x])
    /\ dict_update(dict_update(custom_id_handlers, blueprint_handlers[x]), blueprint_handlers[y])
         = dict_update(dict_update(custom_id_handlers, blueprint_handlers[y]), blueprint_handlers[x])

\* C16: register_blueprint(B) leaves in the root every entry of B, B's entry
\* replacing the root's on a collision, and every root entry whose key B does
\* not have; for two blueprints with disjoint keys the order of registration
\* does not matter.
C16_LastWriteWinsUnion ==
    /\ [][\A b \in Blueprints :
            register_blueprint(b) =>
               /\ MergedInto(discord_commands, blueprint_commands[b], discord_commands')
               /\ MergedInto(custom_id_handlers, blueprint_handlers[b], custom_id_handlers')]_vars
    /\ [](\A x, y \in Blueprints :
            (Disjoint(blueprint_commands[x], blueprint_commands[y])
             /\ Disjoint(blueprint_handlers[x], blueprint_handlers[y])) => SameEitherOrder(x, y))
\* the root holds A's command under a, B's under b1, both registered with
\* disjoint keys, and its own handler next to B's
C16_Witness ==
    /\ last_registration = "merged"
    /\ DOMAIN blueprint_commands["A"] = {"a"} /\ DOMAIN blueprint_commands["B"] = {"b1"}
    /\ DOMAIN discord_commands = {"a", "b1"}
    /\ discord_commands["a"] = blueprint_commands["A"]["a"]
    /\ discord_commands["b1"] = blueprint_commands["B"]["b1"]
    /\ DOMAIN blueprint_handlers["A"] = {} /\ DOMAIN blueprint_handlers["B"] = {"a"}
    /\ DOMAIN custom_id_handlers = {"a", "b"}
    /\ custom_id_handlers["a"] = "g2" /\ custom_id_handlers["b"] = "h1"

\* after is before with val registered under key: one entry per key, the new
\* one under key, the others kept, and no more entries when key was there
Registered(before, key, val, after) ==
    /\ DOMAIN after = DOMAIN before \cup {key}
    /\ after[key] = val
    /\ \A n \in DOMAIN before \ {key} : after[n] = before[n]
    /\ key \in DOMAIN before => Cardinality(DOMAIN after) = Cardinality(DOMAIN before)
AnyCallable == Handlers \cup {BlueprintCallable(b) : b \in Blueprints}

\* C17: every add_command, command_group and add_custom_handler call, on the
\* root or on a blueprint, leaves its registry with one entry per key, the
\* entry under the registered key being the one just registered; registering
\* under a key already present leaves the number of entries unchanged.
C17_MostRecentWins ==
    [][/\ \A name \in Names, h \in AnyCallable :
            add_command(name, h) =>
               Registered(discord_commands, name, Command(h), discord_commands')
       /\ \A name \in Names :
            command_group(name) =>
               Registered(discord_commands, name, SlashCommandGroup, discord_commands')
       /\ \A id \in CustomIds, h \in AnyCallable :
            add_custom_handler(id, h) =>
               Registered(custom_id_handlers, id, h, custom_id_handlers')
       /\ \A b \in Blueprints, name \in Names, h \in AnyCallable :
            blueprint_add_command(b, name, h) =>
               Registered(blueprint_commands[b], name, Command(h), blueprint_commands'[b])
       /\ \A b \in Blueprints, id \in CustomIds, h \in AnyCallable :
            blueprint_add_custom_handler(b, id, h) =>
               Registered(blueprint_handlers[b], id, h, blueprint_handlers'[b])]_vars
\* command_group, add_command and add_custom_handler have all acted on the
\* root, the last of them under a key that was present, and the root holds
\* one entry under each name
C17_Witness ==
    /\ last_registration = "replaced"
    /\ DOMAIN discord_commands = Names
    /\ discord_commands["a"] = SlashCommandGroup
    /\ discord_commands["b1"] = Command("h1")
    /\ DOMAIN custom_id_handlers = CustomIds
    /\ \A id \in CustomIds : custom_id_handlers[id] = "h1"

SyntheticAccess == <<"DONT_REGISTER_WITH_DISCORD">>

\* C18: with DONT_REGISTER_WITH_DISCORD set, no fetch_token, auth_headers or
\* update_commands call sends an HTTP request or raises; every header
\* auth_headers returns and every token fetch_token returns is the synthetic
\* one, and update_commands gives every registered command its name as id.
C18_BypassNoOutbound ==
    BypassRegister =>
       /\ last_call.outbound = <<>>
       /\ last_call.exc = NoExc
       /\ discord_token # NoToken => discord_token.access_token = SyntheticAccess
       /\ AuthCall => last_call.header = <<"Authorization", "Bearer", SyntheticAccess>>
       /\ last_call.op = "fetch_token" => last_call.ret.access_token = SyntheticAccess
       /\ last_call.op = "update_commands" =>
            \A n \in DOMAIN discord_commands : discord_commands[n].id = <<n>>
\* update_commands has run under the flag, after auth_headers cached the
\* synthetic token
C18_Witness ==
    /\ BypassRegister
    /\ last_call.op = "update_commands"
    /\ discord_token.access_token = SyntheticAccess
    /\ DOMAIN discord_commands # {}
    /\ \A n \in DOMAIN discord_commands : discord_commands[n].id = <<n>>

\* a verified MessageComponent or ModalSubmit with a string custom_id, after
\* run_handler has acted
CustomId == DictGet(DictGet(data.json, "data"), "custom_id").v
HandlerCase ==
    /\ Verified
    /\ TypeIs(MESSAGE_COMPONENT) \/ TypeIs(MODAL_SUBMIT)
    /\ DataField(data.json, "custom_id").ok
    /\ DataField(data.json, "custom_id").v.k = "str"
    /\ pc \in {"encode", "except", "done", "raised"}

\* C19: the handler run is the one registered under the first segment of
\* custom_id, once, with the remaining segments as arguments; when no
\* registered id equals the first segment no handler runs and the lookup
\* error is raised, whatever ids that resemble it are registered.
C19_ExactFirstSegment ==
    HandlerCase =>
       IF primary_id(CustomId) \in DOMAIN custom_id_handlers
       THEN /\ Cardinality(Runs) = 1
            /\ \A i \in Runs :
                 trace[i] = <<"run", custom_id_handlers[primary_id(CustomId)]>>
                              \o create_handler_args(CustomId)
       ELSE /\ ~Ran
            /\ pc \in {"except", "raised"}
            /\ exc = Exc("KeyError", <<primary_id(CustomId)>>)
\* the handler under a ran with the argument x, an other id being registered
C19_Witness ==
    /\ HandlerCase
    /\ CustomId = "a|x"
    /\ DOMAIN custom_id_handlers = CustomIds
    /\ custom_id_handlers["a"] # custom_id_handlers["b"]
    /\ InTrace(<<"run", custom_id_handlers["a"], "x">>)

\* a step of the inbound path: from Receive to the return of __call__
Inbound == pc # "idle" \/ pc' # "idle"

\* C20: no step of the handling of an inbound request, whatever its type and
\* outcome, fetches a token or makes an outbound call (last_call and
\* token_requests, which record them, stay as they are), and none changes the
\* cached token or either registry.
C20_DispatchFrame ==
    [][Inbound => UNCHANGED <<discord_token, last_call, token_requests, discord_commands,
                              custom_id_handlers>>]_vars
\* a handler has answered a request while a platform token was cached and
\* the commands carried the ids update_commands gave them
C20_Witness ==
    /\ pc = "done" /\ Ran /\ Answered("200")
    /\ discord_token # NoToken /\ ~BypassRegister
    /\ last_call.op = "update_commands" /\ last_call.exc = NoExc
    /\ \A n \in DOMAIN discord_commands : discord_commands[n].id = PlatformId(n)

\* the last call was an auth_headers call whose token fetch failed
AuthFailed == AuthCall /\ last_call.exc # NoExc

\* C21: an auth_headers call whose fetch fails has sent one token request,
\* raises the HTTP error and returns no header, and leaves the slot as it was
\* before the call, a token to be refreshed or none; the auth_headers call
\* that follows a failed one fetches again.
C21_FailureSurfacedSlotKept ==
    /\ [](AuthFailed =>
            /\ last_call.exc = Exc("HTTPError", POST_TOKEN)
            /\ last_call.fetches = 1
            /\ last_call.outbound = <<POST_TOKEN>>
            /\ last_call.header = <<>>
            /\ discord_token = last_call.before
            /\ discord_token = NoToken \/ now > discord_token.expires_on)
    /\ [][(AuthFailed /\ last_call'.op = "auth_headers") =>
            (last_call'.fetches = 1 /\ last_call'.outbound = <<POST_TOKEN>>)]_vars
\* the refresh of an expired token failed and the expired token is still in
\* the slot
C21_Witness ==
    /\ AuthFailed
    /\ last_call.before # NoToken
    /\ last_call.at > last_call.before.expires_on
    /\ discord_token = last_call.before

\* what the root's lookups find
RootLookups == <<discord_commands, custom_id_handlers>>

\* C22: register_blueprint leaves every blueprint's registries as they were;
\* a registration on a blueprint changes nothing the root's lookups find (the
\* root sees it only through a later register_blueprint), and a registration
\* on the root changes no blueprint.
C22_CopiedAtCallTime ==
    [][/\ \A b \in Blueprints : register_blueprint(b) => UNCHANGED blueprints
       /\ blueprints' # blueprints => UNCHANGED RootLookups
       /\ RootLookups' # RootLookups => UNCHANGED blueprints]_vars
\* the root took a from blueprint A, and the b1 that A registered afterwards
\* is in A and not in the root
C22_Witness ==
    /\ last_registration = "added"
    /\ DOMAIN blueprint_commands["A"] = {"a", "b1"}
    /\ DOMAIN discord_commands = {"a"}
    /\ discord_commands["a"] = blueprint_commands["A"]["a"]
    /\ DOMAIN blueprint_handlers["A"] = {"a"}
    /\ DOMAIN custom_id_handlers = {}

====
